---- MODULE Spec2Model ----
(***************************************************************************)
(* Model of ProgressLogger (src/src/index.ts, the class starting at line   *)
(* 243): the tick/dispose lifecycle, the reactive render pipeline          *)
(* (heartbeat, throttle, NaN filter, dedupe, takeUntil) and the numeric    *)
(* helpers it computes with.                                               *)
(*                                                                         *)
(* JavaScript numbers are modelled as exact rationals extended with NaN    *)
(* and the two infinities: [k, n, d] with k in {"fin","inf","nan"}; a      *)
(* finite value is n/d in lowest terms with d > 0, an infinity carries its *)
(* sign in n.                                                              *)
(***************************************************************************)
EXTENDS Integers, Sequences, FiniteSets, TLC

\* ------------------------------------------------------------------ bounds
MaxTicks == 3
MaxTime == 1000
MaxBeats == 2
MaxSamples == 11

\* ------------------------------------------------------- program constants
HeartbeatMs == 1000
DefaultSampleSize == 100
BucketCount == 10
RoundScale == 10000
PercentScale == 100
KB == 1000
MB == KB * KB
GB == KB * KB * KB

\* time advances in half heartbeats; the throttle interval offered is one step
Quantum == HeartbeatMs \div 2

\* -------------------------------------------------------------- JS numbers
Abs(x) == IF x < 0 THEN -x ELSE x

Sgn(x) == IF x < 0 THEN -1 ELSE 1

RECURSIVE GCD(_, _)
GCD(a, b) == IF b = 0 THEN a ELSE GCD(b, a % b)

NaN == [k |-> "nan", n |-> 0, d |-> 1]

Infinity(s) == [k |-> "inf", n |-> s, d |-> 1]

Rat(n, d) ==
  LET g == GCD(Abs(n), Abs(d))
  IN  [k |-> "fin", n |-> (Sgn(d) * n) \div g, d |-> Abs(d) \div g]

Num(i) == Rat(i, 1)

isNaNStrict(a) == a.k = "nan"

FNeg(a) == IF a.k = "nan" THEN NaN ELSE [a EXCEPT !.n = -a.n]

FAdd(a, b) ==
  IF a.k = "nan" \/ b.k = "nan" THEN NaN
  ELSE IF a.k = "inf" /\ b.k = "inf" THEN (IF a.n = b.n THEN a ELSE NaN)
  ELSE IF a.k = "inf" THEN a
  ELSE IF b.k = "inf" THEN b
  ELSE LET g == GCD(a.d, b.d)
       IN  Rat(a.n * (b.d \div g) + b.n * (a.d \div g), (a.d \div g) * b.d)

FSub(a, b) == FAdd(a, FNeg(b))

FMul(a, b) ==
  IF a.k = "nan" \/ b.k = "nan" THEN NaN
  ELSE IF a.k = "inf" \/ b.k = "inf"
       THEN (IF a.n = 0 \/ b.n = 0 THEN NaN ELSE Infinity(Sgn(a.n) * Sgn(b.n)))
  ELSE LET g1 == GCD(Abs(a.n), b.d)
           g2 == GCD(Abs(b.n), a.d)
       IN  Rat((a.n \div g1) * (b.n \div g2), (a.d \div g2) * (b.d \div g1))

FDiv(a, b) ==
  IF a.k = "nan" \/ b.k = "nan" THEN NaN
  ELSE IF a.k = "inf" THEN (IF b.k = "inf" THEN NaN ELSE Infinity(Sgn(a.n) * Sgn(b.n)))
  ELSE IF b.k = "inf" THEN Num(0)
  ELSE IF b.n = 0 THEN (IF a.n = 0 THEN NaN ELSE Infinity(Sgn(a.n)))
  ELSE FMul(a, Rat(b.d, b.n))

\* a <= b ; every comparison with NaN is false
FLe(a, b) ==
  IF a.k = "nan" \/ b.k = "nan" THEN FALSE
  ELSE IF a.k = "inf" THEN (a.n < 0 \/ (b.k = "inf" /\ b.n > 0))
  ELSE IF b.k = "inf" THEN b.n > 0
  ELSE LET g == GCD(a.d, b.d)
       IN  a.n * (b.d \div g) <= b.n * (a.d \div g)

FGe(a, b) == FLe(b, a)

FGt(a, b) == FLe(b, a) /\ a # b

FMin(a, b) == IF a.k = "nan" \/ b.k = "nan" THEN NaN ELSE IF FLe(a, b) THEN a ELSE b

\* Math.round: nearest integer, halves towards +Infinity
FRound(a) == IF a.k = "fin" THEN Num((2 * a.n + a.d) \div (2 * a.d)) ELSE a

\* ------------------------------------------------------- sequence helpers
Last(s) == s[Len(s)]

Max(a, b) == IF a > b THEN a ELSE b

Min(a, b) == IF a < b THEN a ELSE b

CeilDiv(a, b) == (a + b - 1) \div b

RECURSIVE FSum(_)
FSum(s) == IF Len(s) = 0 THEN Num(0) ELSE FAdd(FSum(SubSeq(s, 1, Len(s) - 1)), Last(s))

\* Array.prototype.sort((a, b) => a - b) on finite numbers: stable ascending order
RECURSIVE InsertSorted(_, _)
InsertSorted(x, s) ==
  IF Len(s) = 0 THEN <<x>>
  ELSE IF FLe(Last(s), x) THEN Append(s, x)
  ELSE Append(InsertSorted(x, SubSeq(s, 1, Len(s) - 1)), Last(s))

RECURSIVE SortAsc(_)
SortAsc(s) == IF Len(s) = 0 THEN <<>> ELSE InsertSorted(Last(s), SortAsc(SubSeq(s, 1, Len(s) - 1)))

\* Array.prototype.filter(x => x >= minValue && x <= maxValue)
RECURSIVE KeepInRange(_, _, _)
KeepInRange(s, minValue, maxValue) ==
  IF Len(s) = 0 THEN <<>>
  ELSE LET rest == KeepInRange(SubSeq(s, 1, Len(s) - 1), minValue, maxValue)
       IN  IF FGe(Last(s), minValue) /\ FLe(Last(s), maxValue) THEN Append(rest, Last(s)) ELSE rest

\* Array.prototype.slice(-k) for k >= 0: -0 is 0, so slice(-0) is the whole array
SliceNeg(s, k) == IF k = 0 THEN s ELSE SubSeq(s, Max(Len(s) - k, 0) + 1, Len(s))

\* ------------------------------------------------- statistics of the samples
\* mutant: the upper quartile is read at the median position
filterOutliers_MedianAsQ3(durations) ==
  IF Len(durations) = 0 THEN <<>>
  ELSE LET values == SortAsc(durations)
           q1 == values[(Len(values) \div 4) + 1]
           q3 == values[(Len(values) \div 2) + 1]
           iqr == FSub(q3, q1)
           maxValue == FAdd(q3, FMul(iqr, Rat(3, 2)))
           minValue == FSub(q1, FMul(iqr, Rat(3, 2)))
       IN  KeepInRange(values, minValue, maxValue)

filterOutliers(durations) ==
  IF Len(durations) = 0 THEN <<>>
  ELSE LET values == SortAsc(durations)
           q1 == values[(Len(values) \div 4) + 1]
           q3 == values[((Len(values) * 3) \div 4) + 1]
           iqr == FSub(q3, q1)
           maxValue == FAdd(q3, FMul(iqr, Rat(3, 2)))
           minValue == FSub(q1, FMul(iqr, Rat(3, 2)))
       IN  KeepInRange(values, minValue, maxValue)

\* the map of averageDuration$
averageDuration(durations, sampleSize) ==
  LET filteredDurations == filterOutliers(durations)
      sample == SliceNeg(filterOutliers(durations),
                         Min(sampleSize, Max(Len(filteredDurations) - 1, 0)))
  IN  FDiv(FSum(sample), Num(Len(sample)))

calculateAverageDuration(durations, sampleSize) ==
  IF Len(durations) = 0 THEN NaN
  ELSE LET filteredDurations == filterOutliers(durations)
           size == Min(sampleSize, Max(Len(filteredDurations) - 1, 0))
           sample == SliceNeg(filterOutliers(durations), size)
       IN  IF Len(sample) = 0 THEN NaN ELSE FDiv(FSum(sample), Num(Len(sample)))

\* the map of averageDurations$: at most BucketCount rounded batch means
\* mutant: the batch size is rounded down
averageBatches_FloorSize(history) ==
  LET batchSize == Max(Len(history) \div BucketCount, 1)
      batches == CeilDiv(Len(history), batchSize)
      Batch(j) == SubSeq(history, j * batchSize + 1, Min((j + 1) * batchSize, Len(history)))
  IN  [j \in 1..batches |-> FRound(FDiv(FSum(Batch(j - 1)), Num(Len(Batch(j - 1)))))]

averageBatches(history) ==
  LET batchSize == Max(CeilDiv(Len(history), BucketCount), 1)
      batches == CeilDiv(Len(history), batchSize)
      Batch(j) == SubSeq(history, j * batchSize + 1, Min((j + 1) * batchSize, Len(history)))
  IN  [j \in 1..batches |-> FRound(FDiv(FSum(Batch(j - 1)), Num(Len(Batch(j - 1)))))]

\* ----------------------------------------------------------- render payload
percentageOf(completedCount, total) == FMul(FDiv(Num(completedCount), Num(total)), Num(PercentScale))

remainingOf(completedCount, total) == FMin(Num(total - completedCount), Num(total))

elapsedEtaOf(elapsed, completedCount, total) ==
  FMul(Num(elapsed), FSub(FDiv(Num(total), Num(completedCount)), Num(1)))

ProgressLoggerData(avg, averages, completedCount, total, elapsed) ==
  [remaining |-> remainingOf(completedCount, total),
   elapsedEta |-> elapsedEtaOf(elapsed, completedCount, total),
   durationEta |-> FMul(avg, remainingOf(completedCount, total)),
   percentage |-> percentageOf(completedCount, total),
   averages |-> averages]

\* mutant: the filter tests the elapsed-ratio ETA only
passesNaNFilter_ElapsedOnly(data) == ~isNaNStrict(data.elapsedEta)

\* filter(...) of the pipeline
passesNaNFilter(data) == ~isNaNStrict(data.elapsedEta) /\ ~isNaNStrict(data.durationEta)

\* mutant: completion only once the total is exceeded
isComplete_Exceeds(completedCount, total) == completedCount > total

\* the completion test of tick
isComplete(completedCount, total) ==
  \/ completedCount >= total
  \/ FGe(FDiv(FRound(FMul(FDiv(Num(completedCount), Num(total)), Num(RoundScale))), Num(PercentScale)),
         Num(PercentScale))

\* ------------------------------------------------------------------- inputs
BigTotal == 2 * RoundScale + 1

Totals == {2, 3}

BigTotals == {2, BigTotal}

ThrottleChoices == {0, Quantum}

Amounts(total) == IF total > 3 THEN {1, total - 1} ELSE {1, 2}

\* the optional duration argument: <<>> is undefined
DurationArgs == {<<>>, <<200>>}

\* -------------------------------------------------------------------- state
VARIABLES
  options,        \* the merged configuration
  now,            \* performance.now()
  startTime,
  lastCompleted,
  completed,
  durations,      \* current value of durations$
  averageHistory, \* accumulator of the scan in averageDurations$
  nextInterval,   \* due time of the next interval$ emission
  out,            \* render pipeline and sink, see OutInit
  tickCalls,      \* history: number of tick() calls made
  lastTick        \* history: the arguments of the last tick() call

vars == <<options, now, startTime, lastCompleted, completed, durations,
          averageHistory, nextInterval, out, tickCalls, lastTick>>

\* out.throttled/throttleEnd/hasValue : state of throttleTime
\* out.lastKey   : previous value kept by distinctUntilChanged (<<>> = none)
\* out.lastData  : this.lastData (<<>> = undefined)
\* out.disposed  : disposed$ has emitted, takeUntil has detached the subscriber
\* out.logUpdateOpen : log-update holds a frame that the next update overwrites
\* out.sink      : every line handed to the render sink, in order
OutInit ==
  [throttled |-> FALSE, throttleEnd |-> 0, hasValue |-> FALSE, lastKey |-> <<>>,
   lastData |-> <<>>, disposed |-> FALSE, logUpdateOpen |-> FALSE, sink |-> <<>>]

\* Number.prototype.toFixed(digits) read back as a number (pow10 = 10^digits)
toFixed(x, pow10) == FDiv(FRound(FMul(x, Num(pow10))), Num(pow10))

\* mutant: the kilobyte figure is taken from the rounded megabyte figure
formatBytes_KbFromMb(bytes) ==
  LET gb == toFixed(FDiv(Num(bytes), Num(GB)), 100)
      mb == toFixed(FDiv(Num(bytes), Num(MB)), 10)
      kb == toFixed(FDiv(mb, Num(KB)), 10)
  IN  IF FGt(gb, Num(1)) THEN [value |-> gb, unit |-> "GB"]
      ELSE IF FGt(mb, Num(1)) THEN [value |-> mb, unit |-> "MB"]
      ELSE IF FGt(kb, Num(1)) THEN [value |-> kb, unit |-> "KB"]
      ELSE [value |-> Num(bytes), unit |-> "bytes"]

\* formatBytes: the figure and the unit of the text it returns
formatBytes(bytes) ==
  LET gb == toFixed(FDiv(Num(bytes), Num(GB)), 100)
      mb == toFixed(FDiv(Num(bytes), Num(MB)), 10)
      kb == toFixed(FDiv(Num(bytes), Num(KB)), 10)
  IN  IF FGt(gb, Num(1)) THEN [value |-> gb, unit |-> "GB"]
      ELSE IF FGt(mb, Num(1)) THEN [value |-> mb, unit |-> "MB"]
      ELSE IF FGt(kb, Num(1)) THEN [value |-> kb, unit |-> "KB"]
      ELSE [value |-> Num(bytes), unit |-> "bytes"]

\* the count texts of a progress line: <<current, total>>
countTexts(opts, completedCount) ==
  IF opts.bytes
  THEN <<formatBytes(completedCount), formatBytes(opts.total)>>
  ELSE <<[value |-> Num(completedCount), unit |-> ""], [value |-> Num(opts.total), unit |-> ""]>>

\* mutant: preventOverwrite is tested before logFunction
renderDestination_OverwriteFirst(opts) ==
  IF opts.preventOverwrite THEN "console.log"
  ELSE IF opts.logFunction THEN "logFunction"
  ELSE "logUpdate"

\* where render hands its line
renderDestination(opts) ==
  IF opts.logFunction THEN "logFunction"
  ELSE IF opts.preventOverwrite THEN "console.log"
  ELSE "logUpdate"

\* where log hands the summary
logDestination(opts) == IF opts.logFunction THEN "logFunction" ELSE "console.log"

\* forced: written by forceRender, not by the pipeline's subscriber
ProgressLine(data, completedCount, t, o, opts, forced) ==
  [type |-> "progress", current |-> completedCount, data |-> <<data>>, at |-> t,
   afterDispose |-> o.disposed, dest |-> renderDestination(opts), forced |-> forced,
   text |-> countTexts(opts, completedCount)]

\* afterDispose: the logger was already disposed when the call writing the line began
\* disposed: the logger was disposed at the moment the line was written
FinishedLine(completedCount, t, wasDisposed, isDisposed, dest) ==
  [type |-> "finished", current |-> completedCount, data |-> <<>>, at |-> t,
   afterDispose |-> wasDisposed, disposed |-> isDisposed, dest |-> dest,
   forced |-> FALSE, text |-> <<>>]

render(o, opts, data, completedCount, t, forced) ==
  [o EXCEPT !.sink = Append(o.sink, ProgressLine(data, completedCount, t, o, opts, forced)),
            !.logUpdateOpen = (o.logUpdateOpen \/ renderDestination(opts) = "logUpdate")]

log(o, opts, completedCount, t, wasDisposed) ==
  [o EXCEPT !.sink = Append(o.sink, FinishedLine(completedCount, t, wasDisposed, o.disposed,
                                                logDestination(opts)))]

isEqual(a, b) == a = b

\* the subscriber of the pipeline: reached only while takeUntil has not fired
subscriber(o, opts, data, completedCount, t) ==
  IF o.disposed THEN o
  ELSE render([o EXCEPT !.lastData = <<data>>], opts, data, completedCount, t, FALSE)

\* mutant: the payload is computed from the average before the latest one
emit_StaleAverage(o, opts, completedCount, history, t, start) ==
  LET stale == IF Len(history) > 1 THEN SubSeq(history, 1, Len(history) - 1) ELSE history
      data == ProgressLoggerData(Last(stale), averageBatches(stale),
                                 completedCount, opts.total, t - start)
  IN  IF ~passesNaNFilter(data) THEN o
      ELSE IF o.lastKey # <<>> /\ isEqual(o.lastKey[1], data) THEN o
      ELSE subscriber([o EXCEPT !.lastKey = <<data>>], opts, data, completedCount, t)

\* map, filter, distinctUntilChanged and the subscriber, for one trigger
emit(o, opts, completedCount, history, t, start) ==
  LET data == ProgressLoggerData(Last(history), averageBatches(history),
                                 completedCount, opts.total, t - start)
  IN  IF ~passesNaNFilter(data) THEN o
      ELSE IF o.lastKey # <<>> /\ isEqual(o.lastKey[1], data) THEN o
      ELSE subscriber([o EXCEPT !.lastKey = <<data>>], opts, data, completedCount, t)

\* mutant: the stored trigger is forwarded without starting a throttle window
send_NoWindow(o, opts, completedCount, history, t, start) ==
  IF o.hasValue
  THEN emit([o EXCEPT !.hasValue = FALSE], opts, completedCount, history, t, start)
  ELSE o

\* throttle's send(): forward the stored trigger and start a new throttle window
send(o, opts, completedCount, history, t, start) ==
  IF o.hasValue
  THEN emit([o EXCEPT !.hasValue = FALSE, !.throttled = TRUE, !.throttleEnd = t + opts.throttleMs],
            opts, completedCount, history, t, start)
  ELSE o

\* one value on renderTrigger$
trigger(o, opts, completedCount, history, t, start) ==
  IF opts.throttleMs > 0
  THEN IF o.throttled
       THEN [o EXCEPT !.hasValue = TRUE]
       ELSE send([o EXCEPT !.hasValue = TRUE], opts, completedCount, history, t, start)
  ELSE emit(o, opts, completedCount, history, t, start)

\* the throttle timer fires: endThrottling with trailing = true
endThrottling(o, opts, completedCount, history, t, start) ==
  send([o EXCEPT !.throttled = FALSE], opts, completedCount, history, t, start)

\* mutant: dispose writes the summary line itself
dispose_Logging(o) ==
  [o EXCEPT !.disposed = TRUE, !.logUpdateOpen = FALSE,
            !.sink = Append(o.sink, FinishedLine(0, 0, o.disposed, TRUE, "console.log"))]

dispose(o) == [o EXCEPT !.disposed = TRUE, !.logUpdateOpen = FALSE]

\* mutant: the fresh payload carries the current average as its trend
forceRender_WithTrend(o, opts, completedCount, durs, t, start) ==
  IF o.lastData # <<>> THEN render(o, opts, o.lastData[1], completedCount, t, TRUE)
  ELSE LET avg == calculateAverageDuration(durs, opts.averageTimeSampleSize)
           data == ProgressLoggerData(avg, <<avg>>, completedCount, opts.total, t - start)
       IN  IF isNaNStrict(avg) THEN o
           ELSE IF isNaNStrict(data.elapsedEta) \/ isNaNStrict(data.durationEta) THEN o
           ELSE render(o, opts, data, completedCount, t, TRUE)

forceRender(o, opts, completedCount, durs, t, start) ==
  IF o.lastData # <<>> THEN render(o, opts, o.lastData[1], completedCount, t, TRUE)
  ELSE LET avg == calculateAverageDuration(durs, opts.averageTimeSampleSize)
           data == ProgressLoggerData(avg, <<>>, completedCount, opts.total, t - start)
       IN  IF isNaNStrict(avg) THEN o
           ELSE IF isNaNStrict(data.elapsedEta) \/ isNaNStrict(data.durationEta) THEN o
           ELSE render(o, opts, data, completedCount, t, TRUE)

\* mutant: the duration of the call is not divided by the amount
durationPerItem_Undivided(amount, duration, t, last) ==
  Num(IF duration = <<>> THEN t - last ELSE duration[1])

durationPerItem(amount, duration, t, last) ==
  FDiv(Num(IF duration = <<>> THEN t - last ELSE duration[1]), Num(amount))

\* mutant: one sample per item of the batch
RECURSIVE nextDurations_PerItem(_, _, _)
nextDurations_PerItem(durs, amount, sample) ==
  IF amount <= 0 THEN durs ELSE Append(nextDurations_PerItem(durs, amount - 1, sample), sample)

\* durations$.next([...durations$.getValue(), durationPerItem])
nextDurations(durs, amount, sample) == Append(durs, sample)

\* ------------------------------------------------------------------ actions
\* construction with a configuration drawn from configs
InitFrom(configs) ==
  /\ options \in configs
  /\ now = 0
  /\ startTime = 0
  /\ lastCompleted = 0
  /\ completed = 0
  /\ durations = <<>>
  /\ averageHistory = <<averageDuration(<<>>, options.averageTimeSampleSize)>>
  /\ nextInterval = HeartbeatMs
  /\ out = trigger(OutInit, options, 0, averageHistory, 0, 0)
  /\ tickCalls = 0
  /\ lastTick = [amount |-> 0, duration |-> <<>>]

\* mutant: the summary is logged before the logger is disposed
TickUpTo_LogBeforeDispose(limit, amount, duration) ==
  /\ tickCalls < limit
  /\ LET completed1 == completed + amount
         durations1 == nextDurations(durations, amount,
                                     durationPerItem(amount, duration, now, lastCompleted))
         history1 == Append(averageHistory, averageDuration(durations1, options.averageTimeSampleSize))
         o1 == trigger(out, options, completed1, history1, now, startTime)
     IN  /\ completed' = completed1
         /\ lastCompleted' = now
         /\ durations' = durations1
         /\ averageHistory' = history1
         /\ out' = IF isComplete(completed1, options.total)
                   THEN dispose(log(forceRender(o1, options, completed1, durations1, now, startTime),
                                    options, completed1, now, out.disposed))
                   ELSE o1
  /\ tickCalls' = tickCalls + 1
  /\ lastTick' = [amount |-> amount, duration |-> duration]
  /\ UNCHANGED <<options, now, startTime, nextInterval>>

\* tick(amount, duration), for at most limit calls
TickUpTo(limit, amount, duration) ==
  /\ tickCalls < limit
  /\ LET completed1 == completed + amount
         durations1 == nextDurations(durations, amount,
                                     durationPerItem(amount, duration, now, lastCompleted))
         history1 == Append(averageHistory, averageDuration(durations1, options.averageTimeSampleSize))
         o1 == trigger(out, options, completed1, history1, now, startTime)
     IN  /\ completed' = completed1
         /\ lastCompleted' = now
         /\ durations' = durations1
         /\ averageHistory' = history1
         /\ out' = IF isComplete(completed1, options.total)
                   THEN log(dispose(forceRender(o1, options, completed1, durations1, now, startTime)),
                            options, completed1, now, out.disposed)
                   ELSE o1
  /\ tickCalls' = tickCalls + 1
  /\ lastTick' = [amount |-> amount, duration |-> duration]
  /\ UNCHANGED <<options, now, startTime, nextInterval>>

Tick(amount, duration) == TickUpTo(MaxTicks, amount, duration)

Dispose ==
  /\ out' = dispose(out)
  /\ UNCHANGED <<options, now, startTime, lastCompleted, completed, durations,
                 averageHistory, nextInterval, tickCalls, lastTick>>

\* interval$ emits
\* mutant: the interval fires without reaching the render trigger
Heartbeat_NoTrigger ==
  /\ now = nextInterval
  /\ nextInterval' = nextInterval + HeartbeatMs
  /\ UNCHANGED <<options, now, startTime, lastCompleted, completed, durations,
                 averageHistory, out, tickCalls, lastTick>>

\* interval(1000) fires and feeds the render trigger
Heartbeat ==
  /\ now = nextInterval
  /\ nextInterval' = nextInterval + HeartbeatMs
  /\ out' = trigger(out, options, completed, averageHistory, now, startTime)
  /\ UNCHANGED <<options, now, startTime, lastCompleted, completed, durations,
                 averageHistory, tickCalls, lastTick>>

\* mutant: the timer callback stamps the time of the last tick
ThrottleTimer_Stamping ==
  /\ out.throttled
  /\ now = out.throttleEnd
  /\ out' = endThrottling(out, options, completed, averageHistory, now, startTime)
  /\ lastCompleted' = now
  /\ UNCHANGED <<options, now, startTime, completed, durations,
                 averageHistory, nextInterval, tickCalls, lastTick>>

\* the timer of throttleTime expires
ThrottleTimer ==
  /\ out.throttled
  /\ now = out.throttleEnd
  /\ out' = endThrottling(out, options, completed, averageHistory, now, startTime)
  /\ UNCHANGED <<options, now, startTime, lastCompleted, completed, durations,
                 averageHistory, nextInterval, tickCalls, lastTick>>

\* time passes; a due timer runs before the clock moves past it
Advance ==
  /\ now + Quantum <= MaxTime
  /\ now # nextInterval
  /\ ~(out.throttled /\ now = out.throttleEnd)
  /\ now' = now + Quantum
  /\ UNCHANGED <<options, startTime, lastCompleted, completed, durations,
                 averageHistory, nextInterval, out, tickCalls, lastTick>>

\* configurations that leave bytes, preventOverwrite and logFunction undefined
Configs(totals, throttles) ==
  [total : totals, throttleMs : throttles, averageTimeSampleSize : {DefaultSampleSize},
   bytes : {FALSE}, preventOverwrite : {FALSE}, logFunction : {FALSE}]

InitWith(totals) == InitFrom(Configs(totals, ThrottleChoices))

Init == InitWith(Totals)

Next ==
  \/ \E amount \in Amounts(options.total), duration \in DurationArgs : Tick(amount, duration)
  \/ Dispose
  \/ Heartbeat
  \/ ThrottleTimer
  \/ Advance

Spec == Init /\ [][Next]_vars

\* the same machine for a total large enough that Math.round reaches 100 early
InitBig == InitWith(BigTotals)

SpecBig == InitBig /\ [][Next]_vars

\* the same machine for an inconsistent configuration, total <= 0
NonPositiveTotals == {0, -1}

InitNonPositive == InitWith(NonPositiveTotals)

SpecNonPositive == InitNonPositive /\ [][Next]_vars

\* the same machine, throttled, for a total that a burst of MaxTicks ticks of one
\* item does not reach
BurstTotals == {MaxTicks + 1}

InitBurst == InitFrom(Configs(BurstTotals, {Quantum}))

SpecBurst == InitBurst /\ [][Next]_vars

\* an unthrottled logger watched over several heartbeats
HeartbeatTotals == {3}

InitHeartbeat == InitFrom(Configs(HeartbeatTotals, {0}))

\* time passes up to the last heartbeat watched
AdvanceBeats ==
  /\ now + Quantum <= MaxBeats * HeartbeatMs
  /\ now # nextInterval
  /\ now' = now + Quantum
  /\ UNCHANGED <<options, startTime, lastCompleted, completed, durations,
                 averageHistory, nextInterval, out, tickCalls, lastTick>>

NextHeartbeat ==
  \/ \E amount \in Amounts(options.total) : Tick(amount, <<200>>)
  \/ Dispose
  \/ Heartbeat
  \/ AdvanceBeats

SpecHeartbeat == InitHeartbeat /\ [][NextHeartbeat]_vars

\* every combination of logFunction and preventOverwrite, ticked in one burst
RoutingTotals == {2}

RoutingConfigs ==
  [total : RoutingTotals, throttleMs : {0}, averageTimeSampleSize : {DefaultSampleSize},
   bytes : {FALSE}, preventOverwrite : BOOLEAN, logFunction : BOOLEAN]

InitRouting == InitFrom(RoutingConfigs)

NextRouting ==
  \/ \E amount \in Amounts(options.total), duration \in DurationArgs : Tick(amount, duration)
  \/ Dispose

SpecRouting == InitRouting /\ [][NextRouting]_vars

\* a byte-counting logger: totals and chunk sizes in every unit's range
ByteTotals == {KB + KB \div 2, GB + GB \div 5}

ByteAmounts == {KB \div 2, KB + KB \div 2, 2 * MB + MB \div 2, GB \div 2}

ByteConfigs ==
  [total : ByteTotals, throttleMs : {0}, averageTimeSampleSize : {DefaultSampleSize},
   bytes : {TRUE}, preventOverwrite : {FALSE}, logFunction : {FALSE}]

InitBytes == InitFrom(ByteConfigs)

NextBytes ==
  \/ \E amount \in ByteAmounts : Tick(amount, <<>>)
  \/ Dispose

SpecBytes == InitBytes /\ [][NextBytes]_vars

\* a long run of single-item ticks with explicit durations, never completing
SampleTotals == {MaxSamples + 2}

SampleValues == {1, 2}

InitSamples == InitFrom(Configs(SampleTotals, {0}))

NextSamples == \E d \in SampleValues : TickUpTo(MaxSamples, 1, <<d>>)

SpecSamples == InitSamples /\ [][NextSamples]_vars

\* ------------------------------------------------------------------- claims
FinishedLines(sink) == {i \in DOMAIN sink : sink[i].type = "finished"}

ProgressLines(sink) == {i \in DOMAIN sink : sink[i].type = "progress"}

\* a step of the machine that is a tick() call
IsTickStep == tickCalls' = tickCalls + 1

\* C1: over any sequence of tick() and dispose() calls the 'Finished' summary
\* line is emitted at most once.
C1_FinishedAtMostOnce == Cardinality(FinishedLines(out.sink)) <= 1

\* C2: no 'Finished' line exists while completedCount < total, and when a tick
\* returns with completedCount = total the logger is disposed and exactly one
\* 'Finished' line has been emitted.
C2_FinishedExactlyAtTotal ==
  /\ completed < options.total => FinishedLines(out.sink) = {}
  /\ (tickCalls > 0 /\ completed = options.total) =>
       (out.disposed /\ Cardinality(FinishedLines(out.sink)) = 1)

\* some completedCount below the total already passes the completion test of tick
CompletesEarly(total) == total > 1 /\ isComplete(total - 1, total)

\* C2 (amended): no 'Finished' line exists while the completion test of tick
\* (completedCount >= total, or the percentage rounded to two decimals >= 100)
\* has not held; and for a total where the test first holds at completedCount =
\* total, when a tick returns with completedCount = total the logger is
\* disposed and exactly one 'Finished' line has been emitted.
C2_FinishedAtCompletionTest ==
  /\ ~isComplete(completed, options.total) => FinishedLines(out.sink) = {}
  /\ (tickCalls > 0 /\ completed = options.total /\ ~CompletesEarly(options.total)) =>
       (out.disposed /\ Cardinality(FinishedLines(out.sink)) = 1)

C2_Witness ==
  /\ tickCalls = 2
  /\ completed = options.total
  /\ ~CompletesEarly(options.total)
  /\ out.disposed
  /\ Cardinality(FinishedLines(out.sink)) = 1

\* C3: once the logger is disposed, a tick() call changes neither completed,
\* lastCompleted nor the duration samples and writes nothing to the sink.
C3_TickAfterDisposeIsNoOp ==
  [][(out.disposed /\ IsTickStep) =>
       /\ completed' = completed
       /\ lastCompleted' = lastCompleted
       /\ durations' = durations
       /\ out'.sink = out.sink]_vars

\* C4: no progress line is rendered to the sink after the logger was disposed.
C4_NoRenderAfterDispose ==
  \A i \in ProgressLines(out.sink) : ~out.sink[i].afterDispose

\* a step that is a dispose() call on a logger not yet disposed
IsFirstDisposeStep == ~out.disposed /\ out'.disposed /\ tickCalls' = tickCalls

\* C5: dispose() is idempotent and silent: in every reachable state disposing
\* twice gives the state that disposing once gives, dispose leaves the logger
\* disposed and adds no line to the sink, and a dispose() call changes nothing
\* but the disposal state.
C5_DisposeIdempotent ==
  /\ [](/\ dispose(dispose(out)) = dispose(out)
        /\ dispose(out).disposed
        /\ dispose(out).sink = out.sink
        /\ (out.disposed => dispose(out) = out))
  /\ [][IsFirstDisposeStep =>
          /\ out'.sink = out.sink
          /\ out'.lastData = out.lastData
          /\ UNCHANGED <<completed, lastCompleted, durations, startTime>>]_vars

\* dispose() was called explicitly after a progress line was rendered: the sink
\* holds that line and no 'Finished' line
C5_Witness ==
  /\ out.disposed
  /\ FinishedLines(out.sink) = {}
  /\ ProgressLines(out.sink) # {}

\* C6: on the completing tick of a logger not disposed before, the line right
\* before the 'Finished' line is a progress line showing the terminal completed
\* count and the percentage computed from that same count.
C6_FinalRenderIsTerminal ==
  \A i \in FinishedLines(out.sink) :
    ~out.sink[i].afterDispose =>
      /\ i > 1
      /\ out.sink[i - 1].type = "progress"
      /\ out.sink[i - 1].current = out.sink[i].current
      /\ out.sink[i - 1].data[1].percentage = percentageOf(out.sink[i].current, options.total)

\* C7: every tick(amount, duration) increases completed by exactly amount and
\* appends exactly one sample, so the number of samples is the number of tick
\* calls.
C7_OneSamplePerTick ==
  /\ [](Len(durations) = tickCalls)
  /\ [][IsTickStep =>
          /\ completed' = completed + lastTick'.amount
          /\ Len(durations') = Len(durations) + 1
          /\ SubSeq(durations', 1, Len(durations)) = durations]_vars

C7_Witness ==
  /\ tickCalls = 2
  /\ lastTick.amount = 2
  /\ completed = 3
  /\ Len(durations) = 2

\* C8: the sample appended by tick(amount, duration) times amount is duration
\* when given, else now minus the time of the previous tick (construction time
\* for the first); every tick sets the previous-tick time to now.
C8_SampleValue ==
  [][IsTickStep =>
       /\ FMul(Last(durations'), Num(lastTick'.amount)) =
            Num(IF lastTick'.duration # <<>> THEN lastTick'.duration[1] ELSE now - lastCompleted)
       /\ lastCompleted' = now]_vars

\* an explicit tick at 500 followed by an implicit tick of two items at 1000:
\* the second sample is (1000 - 500) / 2
C8_Witness ==
  /\ tickCalls = 2
  /\ now = 2 * Quantum
  /\ lastTick = [amount |-> 2, duration |-> <<>>]
  /\ durations = <<Num(200), Rat(Quantum, 2)>>
  /\ lastCompleted = now

\* C9: the percentage of every rendered payload lies in [0, 100] and the
\* rendered percentages never decrease.
C9_PercentageClampedMonotone ==
  \A i \in ProgressLines(out.sink) :
    /\ FGe(out.sink[i].data[1].percentage, Num(0))
    /\ FLe(out.sink[i].data[1].percentage, Num(PercentScale))
    /\ \A j \in ProgressLines(out.sink) :
         j < i => FLe(out.sink[j].data[1].percentage, out.sink[i].data[1].percentage)

\* C10: no rendered progress line carries a not-a-number elapsed-ratio ETA or
\* duration-based ETA, and while completed = 0 no progress line is rendered.
C10_NoNaNRendered ==
  /\ \A i \in ProgressLines(out.sink) :
       /\ ~isNaNStrict(out.sink[i].data[1].elapsedEta)
       /\ ~isNaNStrict(out.sink[i].data[1].durationEta)
  /\ completed = 0 => ProgressLines(out.sink) = {}

\* the heartbeat has fired with nothing completed, and nothing was rendered
C10_Witness ==
  /\ completed = 0
  /\ nextInterval > HeartbeatMs
  /\ ~out.disposed
  /\ out.sink = <<>>

\* a finite number that can be shown as an ETA
IsNumeric(x) == x.k = "fin"

\* C11: a logger constructed with total <= 0 never renders a progress line
\* with a numeric ETA: every render is suppressed.
C11_NonPositiveTotalNeverRenders ==
  options.total <= 0 =>
    \A i \in ProgressLines(out.sink) :
      ~(IsNumeric(out.sink[i].data[1].elapsedEta) /\ IsNumeric(out.sink[i].data[1].durationEta))

\* C12: the sink never receives two consecutive progress lines made from
\* structurally equal payloads, the forced final render included.
C12_NoDuplicatePayload ==
  \A i \in ProgressLines(out.sink) :
    (i + 1) \in ProgressLines(out.sink) =>
      ~isEqual(out.sink[i].data[1], out.sink[i + 1].data[1])

\* three ticks of one item each, all made at construction time, and the
\* throttle window that was open during the burst has ended
BurstDone ==
  /\ options.throttleMs > 0
  /\ tickCalls = 3
  /\ completed = 3
  /\ completed < options.total
  /\ lastCompleted = startTime
  /\ ~out.disposed
  /\ now >= startTime + options.throttleMs
  /\ (~out.throttled \/ out.throttleEnd > startTime + options.throttleMs)

\* C13: for a burst of ticks inside one throttle interval right after
\* construction, the state after the first tick and the state after the last
\* tick are both rendered, in fewer lines than ticks.
C13_BurstLeadingAndTrailing ==
  BurstDone =>
    /\ \E i \in ProgressLines(out.sink) : out.sink[i].current = 1
    /\ \E i \in ProgressLines(out.sink) : out.sink[i].current = completed
    /\ Cardinality(ProgressLines(out.sink)) < tickCalls

\* progress lines written by the pipeline's subscriber
PipelineLines(sink) == {i \in ProgressLines(sink) : ~sink[i].forced}

\* C14: with throttleMs > 0 any two renders by the pipeline are at least
\* throttleMs apart; with throttleMs = 0 no trigger is held back and every
\* tick on a running logger is rendered at once from its own state.
C14_ThrottleSpacing ==
  /\ [](options.throttleMs > 0 =>
          \A i, j \in PipelineLines(out.sink) :
            i < j => out.sink[j].at - out.sink[i].at >= options.throttleMs)
  /\ [](options.throttleMs = 0 => (~out.throttled /\ ~out.hasValue))
  /\ [][(IsTickStep /\ options.throttleMs = 0 /\ ~out.disposed) =>
          /\ Len(out'.sink) > Len(out.sink)
          /\ (Len(out.sink) + 1) \in PipelineLines(out'.sink)
          /\ out'.sink[Len(out.sink) + 1].at = now
          /\ out'.sink[Len(out.sink) + 1].current = completed']_vars

\* two renders by the pipeline exactly one throttle interval apart
C14_Witness ==
  /\ options.throttleMs > 0
  /\ \E i, j \in PipelineLines(out.sink) :
       i < j /\ out.sink[j].at - out.sink[i].at = options.throttleMs

IsHeartbeatStep == nextInterval' = nextInterval + HeartbeatMs

\* C15: on a running, unthrottled logger with 0 < completed < total, a
\* heartbeat that fires later than the last rendered line appends exactly one
\* line, computed from the elapsed time at the heartbeat, whose elapsed-ratio
\* ETA is larger than that of the line before it when no tick came in between.
C15_HeartbeatRenders ==
  [][(/\ IsHeartbeatStep
      /\ options.throttleMs = 0
      /\ ~out.disposed
      /\ completed > 0
      /\ completed < options.total
      /\ \A i \in DOMAIN out.sink : out.sink[i].at < now) =>
       /\ Len(out'.sink) = Len(out.sink) + 1
       /\ SubSeq(out'.sink, 1, Len(out.sink)) = out.sink
       /\ Len(out'.sink) \in PipelineLines(out'.sink)
       /\ Last(out'.sink).at = now
       /\ Last(out'.sink).current = completed
       /\ Last(out'.sink).data[1].elapsedEta =
            elapsedEtaOf(now - startTime, completed, options.total)
       /\ (out.sink # <<>> /\ Last(out.sink).current = completed) =>
            FGt(Last(out'.sink).data[1].elapsedEta, Last(out.sink).data[1].elapsedEta)]_vars

\* two heartbeats in a row were rendered with no tick in between
C15_Witness ==
  /\ ~out.disposed
  /\ \E i \in PipelineLines(out.sink) :
       /\ (i + 1) \in PipelineLines(out.sink)
       /\ out.sink[i].at = HeartbeatMs
       /\ out.sink[i + 1].at = 2 * HeartbeatMs
       /\ out.sink[i].current = out.sink[i + 1].current

\* C16: a progress line goes to logFunction when one is configured, whatever
\* preventOverwrite says; otherwise to console.log when preventOverwrite is
\* set; otherwise to logUpdate. The finished line goes to logFunction when
\* one is configured and to console.log otherwise.
C16_OutputRouting ==
  \A i \in DOMAIN out.sink :
    /\ i \in ProgressLines(out.sink) =>
         /\ options.logFunction => out.sink[i].dest = "logFunction"
         /\ (~options.logFunction /\ options.preventOverwrite) =>
              out.sink[i].dest = "console.log"
         /\ (~options.logFunction /\ ~options.preventOverwrite) =>
              out.sink[i].dest = "logUpdate"
    /\ i \in FinishedLines(out.sink) =>
         /\ options.logFunction => out.sink[i].dest = "logFunction"
         /\ ~options.logFunction => out.sink[i].dest = "console.log"

\* both options set, with a progress line and the finished line written
C16_Witness ==
  /\ options.logFunction
  /\ options.preventOverwrite
  /\ ProgressLines(out.sink) # {}
  /\ FinishedLines(out.sink) # {}

\* bytes / unit rounded half up to the given number of decimal steps per unit
RoundedSteps(bytes, unit, steps) == (bytes + unit \div (2 * steps)) \div (unit \div steps)

\* the unit named for a byte count: GB when bytes / 10^9 to 2 decimals
\* exceeds 1, else MB when bytes / 10^6 to 1 decimal exceeds 1, else KB when
\* bytes / 10^3 to 1 decimal exceeds 1, else bytes
UnitOf(bytes) ==
  IF RoundedSteps(bytes, GB, 100) > 100 THEN "GB"
  ELSE IF RoundedSteps(bytes, MB, 10) > 10 THEN "MB"
  ELSE IF RoundedSteps(bytes, KB, 10) > 10 THEN "KB"
  ELSE "bytes"

\* C17: with the bytes option every progress line shows the completed count
\* and the total with a unit (GB, MB, KB or bytes), and the unit is the one
\* the rounded thresholds select.
C17_ByteUnits ==
  options.bytes =>
    \A i \in ProgressLines(out.sink) :
      /\ Len(out.sink[i].text) = 2
      /\ out.sink[i].text[1].unit \in {"GB", "MB", "KB", "bytes"}
      /\ out.sink[i].text[1].unit = UnitOf(out.sink[i].current)
      /\ out.sink[i].text[2].unit \in {"GB", "MB", "KB", "bytes"}
      /\ out.sink[i].text[2].unit = UnitOf(options.total)

\* exactly 10^9 bytes were shown in MB, a larger count in GB
C17_Witness ==
  /\ options.bytes
  /\ \E i, j \in ProgressLines(out.sink) :
       /\ out.sink[i].current = GB
       /\ out.sink[i].text[1].unit = "MB"
       /\ out.sink[j].text[1].unit = "GB"
       /\ out.sink[j].text[2].unit = "GB"

\* C18: every rendered payload has remaining = max(total - completed, 0), so
\* neither the remaining count nor the duration-based ETA is negative.
C18_RemainingClamped ==
  \A i \in ProgressLines(out.sink) :
    LET data == out.sink[i].data[1]
        left == options.total - out.sink[i].current
    IN  /\ FGe(data.remaining, Num(0))
        /\ FGe(data.durationEta, Num(0))
        /\ ~out.sink[i].forced => data.remaining = Num(IF left > 0 THEN left ELSE 0)

\* the last k entries of s; empty when k = 0
TrailingWindow(s, k) == SubSeq(s, Len(s) - k + 1, Len(s))

\* sum / length, not-a-number for an empty window
MeanOf(window) == FDiv(FSum(window), Num(Len(window)))

\* min(averageTimeSampleSize, max(filteredLength - 1, 0))
WindowSize == Min(options.averageTimeSampleSize, Max(Len(filterOutliers(durations)) - 1, 0))

\* C19: the average is the mean of the trailing WindowSize filtered samples;
\* when WindowSize is 0 the average is not-a-number and no progress line has
\* been rendered from it.
C19_EmptyWindowIsNaN ==
  /\ Last(averageHistory) = MeanOf(TrailingWindow(filterOutliers(durations), WindowSize))
  /\ WindowSize = 0 =>
       /\ isNaNStrict(Last(averageHistory))
       /\ ProgressLines(out.sink) = {}

\* C20: with no outliers and a window shorter than the sample sequence, the
\* average is the mean of the samples recorded by the last WindowSize ticks.
C20_WindowIsMostRecent ==
  (/\ Len(filterOutliers(durations)) = Len(durations)
   /\ WindowSize > 0
   /\ WindowSize < Len(durations)) =>
    Last(averageHistory) = MeanOf(TrailingWindow(durations, WindowSize))

\* number of entries of s below v, and not above v
CountBelow(s, v) == Cardinality({i \in DOMAIN s : ~FGe(s[i], v)})

CountUpTo(s, v) == Cardinality({i \in DOMAIN s : FLe(s[i], v)})

\* the entry at 0-based position k of s taken in ascending order
OrderStat(s, k) ==
  CHOOSE v \in {s[i] : i \in DOMAIN s} : CountBelow(s, v) <= k /\ k < CountUpTo(s, v)

\* x lies in [Q1 - 1.5 * IQR, Q3 + 1.5 * IQR] of s
InFence(s, x) ==
  LET q1 == OrderStat(s, Len(s) \div 4)
      q3 == OrderStat(s, (3 * Len(s)) \div 4)
      reach == FMul(FSub(q3, q1), Rat(3, 2))
  IN  FGe(x, FSub(q1, reach)) /\ FLe(x, FAdd(q3, reach))

Occurrences(s, v) == Cardinality({i \in DOMAIN s : s[i] = v})

\* C21: for n >= 1 samples filterOutliers returns, in ascending order, exactly
\* the samples inside the fence around the positional quartiles; the result
\* is not empty and holds Q1 and Q3; for no samples it returns the empty
\* sequence.
C21_FilterOutliers ==
  LET result == filterOutliers(durations)
  IN  IF durations = <<>> THEN result = <<>>
      ELSE /\ \A i, j \in DOMAIN result : i < j => FLe(result[i], result[j])
           /\ \A i \in DOMAIN durations :
                Occurrences(result, durations[i]) =
                  IF InFence(durations, durations[i])
                  THEN Occurrences(durations, durations[i]) ELSE 0
           /\ \A i \in DOMAIN result : Occurrences(durations, result[i]) > 0
           /\ result # <<>>
           /\ Occurrences(result, OrderStat(durations, Len(durations) \div 4)) > 0
           /\ Occurrences(result, OrderStat(durations, (3 * Len(durations)) \div 4)) > 0

\* the first three samples were all kept, and the largest sample of the
\* present, longer run lies above the fence and was dropped
C21_Witness ==
  /\ Len(durations) >= 5
  /\ Len(filterOutliers(SubSeq(durations, 1, 3))) = 3
  /\ Len(filterOutliers(durations)) < Len(durations)
  /\ Last(filterOutliers(durations)) # Last(SortAsc(durations))

\* bucketSize = max(ceil(len / 10), 1)
BucketSize(len) ==
  IF (len + BucketCount - 1) \div BucketCount > 1
  THEN (len + BucketCount - 1) \div BucketCount ELSE 1

\* the history entries at 0-based positions [j * size, (j + 1) * size)
BucketRun(history, j, size) ==
  [k \in 1..(IF (j + 1) * size <= Len(history) THEN size ELSE Len(history) - j * size) |->
     history[j * size + k]]

\* C22: the trend has ceil(len / bucketSize) <= 10 entries; entry j is the
\* rounded mean of the j-th contiguous run of bucketSize history entries, in
\* order, and every history entry falls in one of the runs.
C22_TrendBuckets ==
  LET len == Len(averageHistory)
      size == BucketSize(len)
      trend == averageBatches(averageHistory)
  IN  /\ Len(trend) <= BucketCount
      /\ Len(trend) = (len + size - 1) \div size
      /\ \A j \in DOMAIN trend :
           trend[j] = FRound(MeanOf(BucketRun(averageHistory, j - 1, size)))
      /\ \A i \in 0..(len - 1) : (i \div size) + 1 \in DOMAIN trend

\* more than ten averages, and a run of two whose mean had to be rounded
C22_Witness ==
  /\ Len(averageHistory) > BucketCount
  /\ BucketSize(Len(averageHistory)) = 2
  /\ \E j \in DOMAIN averageBatches(averageHistory) :
       LET mean == MeanOf(BucketRun(averageHistory, j - 1, 2))
       IN  IsNumeric(mean) /\ mean # averageBatches(averageHistory)[j]

\* C23: the history of averages and the trend hold no not-a-number entry; the
\* history and the trend are empty until a defined average exists, and no
\* rendered trend shows a not-a-number bucket.
C23_HistoryHoldsDefinedAveragesOnly ==
  /\ \A i \in DOMAIN averageHistory : ~isNaNStrict(averageHistory[i])
  /\ durations = <<>> => (averageHistory = <<>> /\ averageBatches(averageHistory) = <<>>)
  /\ \A j \in DOMAIN averageBatches(averageHistory) :
       ~isNaNStrict(averageBatches(averageHistory)[j])
  /\ \A i \in ProgressLines(out.sink) :
       \A j \in DOMAIN out.sink[i].data[1].averages :
         ~isNaNStrict(out.sink[i].data[1].averages[j])

\* C24: a step that is not a tick call (a heartbeat, a throttle-timer expiry,
\* a disposal or the passage of time) leaves completed, lastCompleted,
\* durations and startTime as they were.
C24_CallbacksKeepTickAccounting ==
  [][~IsTickStep => UNCHANGED <<completed, lastCompleted, durations, startTime>>]_vars

\* after a single tick at time 0 the throttle timer rendered the trailing
\* line and the first heartbeat has fired
C24_Witness ==
  /\ tickCalls = 1
  /\ lastCompleted = 0
  /\ options.throttleMs > 0
  /\ nextInterval > HeartbeatMs
  /\ \E i \in PipelineLines(out.sink) : out.sink[i].at = options.throttleMs

\* C25: once disposed, an emission of the duration-sample stream runs no
\* callback: the history of averages gains no entry and the pipeline's
\* distinctUntilChanged sees no new payload.
C25_DisposeDetachesEverySubscriber ==
  [][(out.disposed /\ durations' # durations) =>
       (averageHistory' = averageHistory /\ out'.lastKey = out.lastKey)]_vars

\* the lines a step appends to the sink
Added == SubSeq(out'.sink, Len(out.sink) + 1, Len(out'.sink))

\* C26: on the completing tick of a logger not disposed before, the forced
\* final render comes before the 'Finished' line and the 'Finished' line is
\* written while the logger is not yet disposed.
C26_FinishedBeforeDisposed ==
  \A i \in FinishedLines(out.sink) :
    ~out.sink[i].afterDispose =>
      /\ ~out.sink[i].disposed
      /\ \A j \in ProgressLines(out.sink) : ~out.sink[j].afterDispose => j < i

\* C26 (amended): a tick that passes the completion test first renders, then
\* disposes the logger, then writes the 'Finished' line: the lines it adds
\* are progress lines rendered in the disposal state the tick began in,
\* followed by one 'Finished' line written on the disposed logger.
C26_RenderDisposeFinished ==
  [][(IsTickStep /\ isComplete(completed', options.total)) =>
       /\ Added # <<>>
       /\ Last(Added).type = "finished"
       /\ Last(Added).disposed
       /\ \A k \in 1..(Len(Added) - 1) :
            Added[k].type = "progress" /\ Added[k].afterDispose = out.disposed
       /\ out'.disposed]_vars

\* a first completion: a forced render by the running logger, directly
\* followed by the 'Finished' line written after disposal
C26_Witness ==
  \E i \in FinishedLines(out.sink) :
    /\ ~out.sink[i].afterDispose
    /\ out.sink[i].disposed
    /\ i > 1
    /\ out.sink[i - 1].type = "progress"
    /\ out.sink[i - 1].forced
    /\ ~out.sink[i - 1].afterDispose

\* a step in which the throttle timer ran
IsThrottleTimerStep ==
  /\ out.throttled
  /\ now = out.throttleEnd
  /\ UNCHANGED <<now, nextInterval, tickCalls>>
  /\ (out'.throttled # out.throttled \/ out'.throttleEnd # out.throttleEnd)

\* C27: once the logger is disposed, a step that is not a tick call writes
\* nothing to the sink, and neither the heartbeat nor the throttle timer
\* runs any more.
C27_TimeAloneAfterDispose ==
  [][(out.disposed /\ ~IsTickStep) =>
       /\ out'.sink = out.sink
       /\ ~IsHeartbeatStep
       /\ ~IsThrottleTimerStep]_vars

\* what does hold after disposal: without a tick call the sink gains no line
SinkQuietAfterDispose == [][(out.disposed /\ ~IsTickStep) => out'.sink = out.sink]_vars

\* C28: with throttling disabled, a tick on a running logger appends, in the
\* same step, a line rendered by the pipeline from the state after the tick:
\* its count and percentage include the tick's amount, and its duration-based
\* ETA and trend come from the average that includes the tick's sample.
C28_TickRendersPostTickState ==
  [][(IsTickStep /\ options.throttleMs = 0 /\ ~out.disposed) =>
       /\ Added # <<>>
       /\ 1 \in PipelineLines(Added)
       /\ Added[1].at = now
       /\ Added[1].current = completed + lastTick'.amount
       /\ Added[1].data[1].percentage =
            percentageOf(completed + lastTick'.amount, options.total)
       /\ Last(durations') = durationPerItem(lastTick'.amount, lastTick'.duration,
                                             now, lastCompleted)
       /\ Last(averageHistory') =
            averageDuration(durations', options.averageTimeSampleSize)
       /\ Added[1].data[1].durationEta =
            FMul(Last(averageHistory'),
                 remainingOf(completed + lastTick'.amount, options.total))
       /\ Added[1].data[1].averages = averageBatches(averageHistory')]_vars

\* a second tick was rendered with an average that its own sample changed
C28_Witness ==
  /\ options.throttleMs = 0
  /\ tickCalls = 2
  /\ ~out.disposed
  /\ Last(averageHistory) # averageHistory[Len(averageHistory) - 1]
  /\ Last(out.sink).type = "progress"
  /\ Last(out.sink).current = completed
  /\ Last(out.sink).data[1].durationEta =
       FMul(Last(averageHistory), remainingOf(completed, options.total))

\* the payload forceRender builds when the pipeline has rendered nothing
FreshPayload ==
  [remaining |-> remainingOf(completed', options.total),
   elapsedEta |-> elapsedEtaOf(now - startTime, completed', options.total),
   durationEta |-> FMul(calculateAverageDuration(durations', options.averageTimeSampleSize),
                        remainingOf(completed', options.total)),
   percentage |-> percentageOf(completed', options.total),
   averages |-> <<>>]

\* C29: when a tick completes the run and the pipeline has rendered no
\* payload, that tick included, the forced final render shows a payload
\* computed from the current state with an empty trend, directly followed by
\* the 'Finished' line; it is left out exactly when the average or one of
\* the two ETAs is not-a-number.
C29_FreshFinalRender ==
  [][(/\ IsTickStep
      /\ ~out.disposed
      /\ isComplete(completed', options.total)
      /\ out'.lastData = <<>>) =>
       IF \/ isNaNStrict(calculateAverageDuration(durations', options.averageTimeSampleSize))
          \/ isNaNStrict(FreshPayload.elapsedEta)
          \/ isNaNStrict(FreshPayload.durationEta)
       THEN Len(Added) = 1 /\ Added[1].type = "finished"
       ELSE /\ Len(Added) = 2
            /\ Added[1].type = "progress"
            /\ Added[1].forced
            /\ Added[1].current = completed'
            /\ Added[1].data = <<FreshPayload>>
            /\ Added[2].type = "finished"]_vars

\* a run of several ticks completed with nothing rendered before: the sink
\* holds the fresh final render, with an empty trend, and the 'Finished' line
C29_Witness ==
  /\ tickCalls >= 2
  /\ out.lastData = <<>>
  /\ Len(out.sink) = 2
  /\ out.sink[1].type = "progress"
  /\ out.sink[1].forced
  /\ out.sink[1].data[1].averages = <<>>
  /\ out.sink[1].data[1].percentage = percentageOf(completed, options.total)
  /\ out.sink[2].type = "finished"

====
